---- MODULE Spec2Model ----
(***************************************************************************)
(* Model of collatz.py: the Collatz sequence generator collatz_sequence,   *)
(* its loop run step by step by a set of independent workers, and the      *)
(* Flask handlers index ("/") and collatz_api ("/api/collatz") around it.  *)
(*                                                                         *)
(* Python integers are arbitrary precision, so values are plain Int.       *)
(* The Japanese string literals of the source are written as ASCII tokens  *)
(* (the module's strings are ASCII only); f-strings are sequences of       *)
(* tokens in which every interpolated number is formatted to its decimal   *)
(* digits.                                                                 *)
(***************************************************************************)
EXTENDS Integers, Sequences, FiniteSets, TLC

\* ---- bounds of the model ------------------------------------------------
\* largest start value / JSON integer a caller supplies
MaxStart == 7
\* starts run down to -NegStart
NegStart == 1
\* explicit max_steps arguments run over -NegK .. MaxK (and the default)
MaxK == 3
NegK == 1

\* the workers serving invocations concurrently
Procs == {"w1", "w2"}

\* ---- program constants --------------------------------------------------
MAX_STEPS == 1000
\* "1 以上の整数を入力してください。"
INVALID_INPUT_MESSAGE == "INVALID_INPUT_MESSAGE: enter an integer of 1 or more"

\* ---- formatting (f-string interpolation of an int) ------------------------
DigitChars == <<"0", "1", "2", "3", "4", "5", "6", "7", "8", "9">>

RECURSIVE Str(_)
Str(n) ==
    IF n < 0 THEN <<"-">> \o Str(-n)
    ELSE IF n < 10 THEN <<DigitChars[n + 1]>>
    ELSE Str(n \div 10) \o <<DigitChars[(n % 10) + 1]>>

\* ---- CollatzStep / CollatzResult ------------------------------------------
CollatzStepOffByOne(step, value, operation) ==
    [step |-> step + 1, value |-> value, operation |-> operation]

CollatzStep(step, value, operation) ==
    [step |-> step, value |-> value, operation |-> operation]

CollatzResult(steps, truncated) ==
    [steps |-> steps, truncated |-> truncated]

to_dict(self) ==
    [step |-> self.step, value |-> self.value, operation |-> self.operation]

to_response_payloadCapFromLength(self, max_steps) ==
    [steps |-> [i \in 1..Len(self.steps) |-> to_dict(self.steps[i])],
     truncated |-> self.truncated,
     max_steps |-> Len(self.steps)]

to_response_payload(self, max_steps) ==
    [steps |-> [i \in 1..Len(self.steps) |-> to_dict(self.steps[i])],
     truncated |-> self.truncated,
     max_steps |-> max_steps]

\* ---- the body of collatz_sequence -----------------------------------------
StartInvalidZeroAllowed(start) == start < 0

\* line 71: if start <= 0: raise ValueError
StartInvalid(start) == start <= 0

\* "開始値"
OperationStart == <<"START_VALUE">>

\* line 74
InitialSteps(start) == <<CollatzStep(0, start, OperationStart)>>

NextValueNoPlusOne(current) ==
    IF current % 2 = 0 THEN current \div 2 ELSE current * 3

\* lines 81-87: next_value
NextValue(current) ==
    IF current % 2 = 0 THEN current \div 2 ELSE current * 3 + 1

\* lines 84, 87: the f-string describing the transformation
\*   "{current} は偶数なので 2 で割って {next_value}"
\*   "{current} は奇数なので 3×{current} + 1 = {next_value}"
Operation(current, next_value) ==
    IF current % 2 = 0
    THEN Str(current) \o <<" is even, so divided by 2: ">> \o Str(next_value)
    ELSE Str(current) \o <<" is odd, so 3x">> \o Str(current)
             \o <<" + 1 = ">> \o Str(next_value)

TruncatedNever(current) == FALSE

\* line 92
Truncated(current) == current # 1

LoopContinuesNoBreak(idx, k, cur) == idx <= k

LoopContinuesOneMore(idx, k, cur) == idx <= k + 1 /\ cur # 1

\* lines 77-79: range(1, max_steps + 1) not exhausted, and no break
LoopContinues(idx, k, cur) == idx <= k /\ cur # 1

\* lines 56-93 run from entry to return without interruption
RECURSIVE Loop(_, _, _, _)
Loop(stps, cur, idx, k) ==
    IF LoopContinues(idx, k, cur)
    THEN LET next_value == NextValue(cur)
             operation == Operation(cur, next_value)
         IN  Loop(Append(stps, CollatzStep(idx, next_value, operation)),
                  next_value, idx + 1, k)
    ELSE CollatzResult(stps, Truncated(cur))

collatz_sequence(s, k) == Loop(InitialSteps(s), s, 1, k)

\* ---- int() and _parse_positive_int ----------------------------------------
\* A JSON value: t is its Python type after json.loads;
\*   "int"   n                  "bool"  n in {0, 1}
\*   "float" n / d              "inf"   the float Infinity
\*   "str"   s (characters)     "null"  None          "list"  a JSON array
Val(t, n, d, s) == [t |-> t, n |-> n, d |-> d, s |-> s]
NoneVal == Val("null", 0, 1, <<>>)
IntVal(n) == Val("int", n, 1, <<>>)
FloatVal(n, d) == Val("float", n, d, <<>>)
BoolVal(b) == Val("bool", IF b THEN 1 ELSE 0, 1, <<>>)
StrVal(s) == Val("str", 0, 1, s)
InfVal == Val("inf", 0, 1, <<>>)
ListVal == Val("list", 0, 1, <<>>)

Ok(n) == [ok |-> TRUE, n |-> n, exc |-> ""]
Raise(exc) == [ok |-> FALSE, n |-> 0, exc |-> exc]

IsDigit(c) == \E i \in 1..10 : DigitChars[i] = c
DigitOf(c) == (CHOOSE i \in 1..10 : DigitChars[i] = c) - 1

RECURSIVE StripLeft(_)
StripLeft(s) ==
    IF s # <<>> /\ Head(s) = " " THEN StripLeft(Tail(s)) ELSE s

RECURSIVE StripRight(_)
StripRight(s) ==
    IF s # <<>> /\ s[Len(s)] = " " THEN StripRight(SubSeq(s, 1, Len(s) - 1)) ELSE s

RECURSIVE DigitsValue(_)
DigitsValue(s) ==
    IF s = <<>> THEN 0
    ELSE 10 * DigitsValue(SubSeq(s, 1, Len(s) - 1)) + DigitOf(s[Len(s)])

\* int(str): surrounding whitespace stripped, an optional sign, then digits
IntOfStr(s) ==
    LET t == StripRight(StripLeft(s))
        signed == t # <<>> /\ Head(t) \in {"+", "-"}
        digits == IF signed THEN Tail(t) ELSE t
    IN  IF digits = <<>> \/ \E i \in 1..Len(digits) : ~IsDigit(digits[i])
        THEN Raise("ValueError")
        ELSE IF signed /\ Head(t) = "-"
             THEN Ok(-DigitsValue(digits))
             ELSE Ok(DigitsValue(digits))

\* int(float) truncates towards zero
TruncDiv(n, d) == IF n >= 0 THEN n \div d ELSE -((-n) \div d)

\* line 114: number = int(value)
PyInt(value) ==
    CASE value.t = "int" -> Ok(value.n)
      [] value.t = "bool" -> Ok(value.n)
      [] value.t = "float" -> Ok(TruncDiv(value.n, value.d))
      [] value.t = "inf" -> Raise("OverflowError")
      [] value.t = "str" -> IntOfStr(value.s)
      [] OTHER -> Raise("TypeError")

\* lines 107-117
_parse_positive_int(value) ==
    LET number == PyInt(value)
    IN  IF ~number.ok THEN number
        ELSE IF number.n < 1 THEN Raise("ValueError")
        ELSE number

\* ---- requests ---------------------------------------------------------------
\* The body of POST /api/collatz as request.get_json(silent=True) sees it:
\*   "none"   no body / not JSON / a falsy JSON value: get_json(...) or {} is {}
\*   "array"  a non-empty JSON array: a truthy value without .get
\*   "object" a JSON object; has says whether it holds the key "number"
Body(kind, has, number) == [kind |-> kind, has |-> has, number |-> number]
NoBody == Body("none", FALSE, NoneVal)

Strings ==
    { <<"a", "b", "c">>, <<>>, <<"2", ".", "5">>, <<" ", "3", " ">>,
      <<"-", "5">>, <<"+", "4">>, <<"0">>, <<"1", "0">> }

Values ==
    {IntVal(n) : n \in -NegStart..MaxStart}
    \cup {FloatVal(5, 2), FloatVal(1, 2), FloatVal(-5, 2)}
    \cup {BoolVal(TRUE), BoolVal(FALSE), NoneVal, InfVal, ListVal}
    \cup {StrVal(s) : s \in Strings}

Bodies ==
    {NoBody, Body("array", FALSE, NoneVal), Body("object", FALSE, NoneVal)}
    \cup {Body("object", TRUE, v) : v \in Values}

\* the field "number" of a form posted to "/" ("" when the field is absent)
Forms == {<<>>, <<"6">>, <<"a", "b", "c">>, <<"0">>}
Methods == {"GET", "POST"}

Starts == -NegStart..MaxStart
MaxStepsArgs == (-NegK..MaxK) \cup {MAX_STEPS}

\* ---- state --------------------------------------------------------------
VARIABLES
    pc,          \* where each worker is: "idle", "loop", "returned", "raised", "responded"
    handler,     \* what the worker runs: "none", "direct", "api", "index"
    request,     \* the request being served: [method, body, form]
    start,       \* collatz_sequence: argument start
    max_steps,   \* collatz_sequence: argument max_steps
    steps,       \* collatz_sequence: local steps
    current,     \* collatz_sequence: local current
    step_index,  \* collatz_sequence: the loop variable of range(1, max_steps + 1)
    result,      \* <<>> or <<the CollatzResult returned>>
    exc,         \* "" or the exception that ended the call
    response     \* <<>> or <<the HTTP response sent>>

vars == <<pc, handler, request, start, max_steps, steps, current, step_index,
          result, exc, response>>

NoRequest == [method |-> "", body |-> NoBody, form |-> <<>>]

Init ==
    /\ pc = [p \in Procs |-> "idle"]
    /\ handler = [p \in Procs |-> "none"]
    /\ request = [p \in Procs |-> NoRequest]
    /\ start = [p \in Procs |-> 0]
    /\ max_steps = [p \in Procs |-> 0]
    /\ steps = [p \in Procs |-> <<>>]
    /\ current = [p \in Procs |-> 0]
    /\ step_index = [p \in Procs |-> 0]
    /\ result = [p \in Procs |-> <<>>]
    /\ exc = [p \in Procs |-> ""]
    /\ response = [p \in Procs |-> <<>>]

\* ---- collatz_sequence -----------------------------------------------------
\* lines 71-75: the entry of collatz_sequence(s, max_steps=k) on worker p
Enter(p, s, k) ==
    /\ start' = [start EXCEPT ![p] = s]
    /\ max_steps' = [max_steps EXCEPT ![p] = k]
    /\ IF StartInvalid(s)
       THEN /\ exc' = [exc EXCEPT ![p] = "ValueError"]
            /\ UNCHANGED <<steps, current, step_index>>
       ELSE /\ steps' = [steps EXCEPT ![p] = InitialSteps(s)]
            /\ current' = [current EXCEPT ![p] = s]
            /\ step_index' = [step_index EXCEPT ![p] = 1]
            /\ UNCHANGED exc

\* a direct call collatz_sequence(s, max_steps=k)
Call(p, s, k) ==
    /\ pc[p] = "idle"
    /\ handler' = [handler EXCEPT ![p] = "direct"]
    /\ Enter(p, s, k)
    /\ pc' = [pc EXCEPT ![p] = IF StartInvalid(s) THEN "raised" ELSE "loop"]
    /\ UNCHANGED <<request, result, response>>

LoopIterShared(p) ==
    /\ pc[p] = "loop"
    /\ LoopContinues(step_index[p], max_steps[p], current[p])
    /\ LET next_value == NextValue(current[p])
           operation == Operation(current[p], next_value)
           new == CollatzStep(step_index[p], next_value, operation)
       IN  /\ current' = [current EXCEPT ![p] = next_value]
           /\ steps' = [q \in Procs |->
                          IF pc[q] = "loop" THEN Append(steps[q], new) ELSE steps[q]]
    /\ step_index' = [step_index EXCEPT ![p] = step_index[p] + 1]
    /\ UNCHANGED <<pc, handler, request, start, max_steps, result, exc, response>>

\* lines 77-90: one iteration of the loop
LoopIter(p) ==
    /\ pc[p] = "loop"
    /\ LoopContinues(step_index[p], max_steps[p], current[p])
    /\ LET next_value == NextValue(current[p])
           operation == Operation(current[p], next_value)
       IN  /\ current' = [current EXCEPT ![p] = next_value]
           /\ steps' = [steps EXCEPT ![p] =
                          Append(steps[p], CollatzStep(step_index[p], next_value, operation))]
    /\ step_index' = [step_index EXCEPT ![p] = step_index[p] + 1]
    /\ UNCHANGED <<pc, handler, request, start, max_steps, result, exc, response>>

\* lines 77-79, 92-93: the loop ends, the result is returned
LoopExit(p) ==
    /\ pc[p] = "loop"
    /\ ~LoopContinues(step_index[p], max_steps[p], current[p])
    /\ result' = [result EXCEPT ![p] =
                    <<CollatzResult(steps[p], Truncated(current[p]))>>]
    /\ pc' = [pc EXCEPT ![p] = "returned"]
    /\ UNCHANGED <<handler, request, start, max_steps, steps, current, step_index,
                   exc, response>>

\* ---- the Flask handlers -----------------------------------------------------
JsonResponse(status, body) == [status |-> status, type |-> "json", body |-> body]

\* line 104
_json_error(message, status_code) == JsonResponse(status_code, [error |-> message])

\* an exception no handler catches: Flask answers 500
ServerError == [status |-> 500, type |-> "html", body |-> [error |-> "Internal Server Error"]]

\* lines 96-98: render_template("index.html", max_steps=MAX_STEPS)
index(p, method, form) ==
    /\ pc[p] = "idle"
    /\ handler' = [handler EXCEPT ![p] = "index"]
    /\ request' = [request EXCEPT ![p] = [method |-> method, body |-> NoBody, form |-> form]]
    /\ response' = [response EXCEPT ![p] =
                      <<[status |-> 200, type |-> "html",
                         body |-> [template |-> "index.html",
                                   context |-> [max_steps |-> MAX_STEPS]]]>>]
    /\ pc' = [pc EXCEPT ![p] = "responded"]
    /\ UNCHANGED <<start, max_steps, steps, current, step_index, result, exc>>

\* lines 122-123: payload.get("number")
RawNumber(body) ==
    IF body.kind = "object" /\ body.has THEN body.number ELSE NoneVal

\* lines 122-133: collatz_api up to the call of collatz_sequence(number)
collatz_api(p, body) ==
    /\ pc[p] = "idle"
    /\ handler' = [handler EXCEPT ![p] = "api"]
    /\ request' = [request EXCEPT ![p] = [method |-> "POST", body |-> body, form |-> <<>>]]
    /\ UNCHANGED result
    /\ IF body.kind = "array"
       THEN \* payload.get: AttributeError, not caught
            /\ exc' = [exc EXCEPT ![p] = "AttributeError"]
            /\ response' = [response EXCEPT ![p] = <<ServerError>>]
            /\ pc' = [pc EXCEPT ![p] = "responded"]
            /\ UNCHANGED <<start, max_steps, steps, current, step_index>>
       ELSE LET number == _parse_positive_int(RawNumber(body))
            IN  IF ~number.ok
                THEN /\ pc' = [pc EXCEPT ![p] = "responded"]
                     /\ UNCHANGED <<start, max_steps, steps, current, step_index>>
                     /\ IF number.exc \in {"TypeError", "ValueError"}
                        THEN /\ response' = [response EXCEPT ![p] =
                                   <<_json_error(INVALID_INPUT_MESSAGE, 400)>>]
                             /\ UNCHANGED exc
                        ELSE /\ exc' = [exc EXCEPT ![p] = number.exc]
                             /\ response' = [response EXCEPT ![p] = <<ServerError>>]
                ELSE /\ Enter(p, number.n, MAX_STEPS)
                     /\ IF StartInvalid(number.n)
                        THEN \* lines 132-133
                             /\ response' = [response EXCEPT ![p] =
                                   <<_json_error(INVALID_INPUT_MESSAGE, 400)>>]
                             /\ pc' = [pc EXCEPT ![p] = "responded"]
                        ELSE /\ pc' = [pc EXCEPT ![p] = "loop"]
                             /\ UNCHANGED response

\* line 135: jsonify(result.to_response_payload(max_steps=MAX_STEPS))
collatz_api_return(p) ==
    /\ pc[p] = "returned"
    /\ handler[p] = "api"
    /\ response' = [response EXCEPT ![p] =
                      <<JsonResponse(200, to_response_payload(result[p][1], MAX_STEPS))>>]
    /\ pc' = [pc EXCEPT ![p] = "responded"]
    /\ UNCHANGED <<handler, request, start, max_steps, steps, current, step_index,
                   result, exc>>

\* the invocation is over: its locals, result and response are discarded
Finish(p) ==
    /\ pc[p] \in {"raised", "responded"} \/ (pc[p] = "returned" /\ handler[p] = "direct")
    /\ pc' = [pc EXCEPT ![p] = "idle"]
    /\ handler' = [handler EXCEPT ![p] = "none"]
    /\ request' = [request EXCEPT ![p] = NoRequest]
    /\ start' = [start EXCEPT ![p] = 0]
    /\ max_steps' = [max_steps EXCEPT ![p] = 0]
    /\ steps' = [steps EXCEPT ![p] = <<>>]
    /\ current' = [current EXCEPT ![p] = 0]
    /\ step_index' = [step_index EXCEPT ![p] = 0]
    /\ result' = [result EXCEPT ![p] = <<>>]
    /\ exc' = [exc EXCEPT ![p] = ""]
    /\ response' = [response EXCEPT ![p] = <<>>]

Next ==
    \/ \E p \in Procs, s \in Starts, k \in MaxStepsArgs : Call(p, s, k)
    \/ \E p \in Procs : LoopIter(p)
    \/ \E p \in Procs : LoopExit(p)
    \/ \E p \in Procs, m \in Methods, f \in Forms : index(p, m, f)
    \/ \E p \in Procs, b \in Bodies : collatz_api(p, b)
    \/ \E p \in Procs : collatz_api_return(p)
    \/ \E p \in Procs : Finish(p)

Spec == Init /\ [][Next]_vars

\* ==== properties ===========================================================
Res(p) == result[p][1]
Returned(p) == result[p] # <<>>
ValuesOf(stps) == [i \in 1..Len(stps) |-> stps[i].value]

\* the Collatz map and the first len values of the trajectory of n
CollatzMap(x) == IF x % 2 = 0 THEN x \div 2 ELSE 3 * x + 1

RECURSIVE Iterate(_, _)
Iterate(n, i) == IF i = 0 THEN n ELSE CollatzMap(Iterate(n, i - 1))

Trajectory(n, len) == [i \in 1..len |-> Iterate(n, i - 1)]

\* C1: every step's value is obtained from the previous step's value by one
\* transformation, halving an even value and 3x+1 on an odd one, so the values
\* are the Collatz trajectory of start; start 6 under the default cap gives
\* 6, 3, 10, 5, 16, 8, 4, 2, 1 and truncated = false.
C1_StepsFollowCollatz ==
    \A p \in Procs :
        /\ \A i \in 1..(Len(steps[p]) - 1) :
               LET v == steps[p][i].value
               IN  steps[p][i + 1].value = IF v % 2 = 0 THEN v \div 2 ELSE 3 * v + 1
        /\ Returned(p) =>
               /\ ValuesOf(Res(p).steps) = Trajectory(start[p], Len(Res(p).steps))
               /\ (start[p] = 6 /\ max_steps[p] = MAX_STEPS) =>
                      /\ ValuesOf(Res(p).steps) = <<6, 3, 10, 5, 16, 8, 4, 2, 1>>
                      /\ Res(p).truncated = FALSE

C1_Witness ==
    \E p \in Procs :
        Returned(p) /\ start[p] = 6 /\ max_steps[p] = MAX_STEPS /\ Len(Res(p).steps) = 9

\* C2: a result's first step holds the start value, and when truncated is
\* false the last step's value is 1.
C2_FirstIsStartLastIsOne ==
    \A p \in Procs :
        Returned(p) =>
            /\ Res(p).steps[1].value = start[p]
            /\ Res(p).truncated = FALSE => Res(p).steps[Len(Res(p).steps)].value = 1

C2_Witness ==
    \E p \in Procs, q \in Procs :
        /\ Returned(p) /\ ~Res(p).truncated /\ Len(Res(p).steps) > 1
        /\ max_steps[p] = MAX_STEPS
        /\ Returned(q) /\ Res(q).truncated

\* C3 as stated: for every integer k given as max_steps the result has at most
\* k+1 steps, and truncated holds iff the (k+1)-th step exists with a value
\* other than 1.
C3_AtMostKPlusOneForEveryK ==
    \A p \in Procs :
        Returned(p) =>
            LET k == max_steps[p]
                n == Len(Res(p).steps)
            IN  /\ n <= k + 1
                /\ Res(p).truncated <=> (n = k + 1 /\ Res(p).steps[n].value # 1)

\* C3 amended: the same for every k >= 0; truncated holds iff the loop ran out
\* of range(1, k+1) with current other than 1. For k < 0 the result is the
\* initial step alone, truncated iff start is not 1.
C3_AtMostKPlusOneForNonNegativeK ==
    \A p \in Procs :
        Returned(p) =>
            LET k == max_steps[p]
                n == Len(Res(p).steps)
            IN  /\ k >= 0 =>
                    /\ n <= k + 1
                    /\ Res(p).truncated <=> (n = k + 1 /\ Res(p).steps[n].value # 1)
                    /\ Res(p).truncated <=> (step_index[p] > k /\ current[p] # 1)
                /\ k < 0 =>
                    /\ n = 1
                    /\ Res(p).truncated <=> (start[p] # 1)

C3_Witness ==
    \E p \in Procs, q \in Procs :
        /\ Returned(p) /\ max_steps[p] \in 1..MaxK /\ Res(p).truncated
        /\ Len(Res(p).steps) = max_steps[p] + 1
        /\ Returned(q) /\ max_steps[q] \in 1..MaxK /\ ~Res(q).truncated
        /\ Len(Res(q).steps) = max_steps[q] + 1

\* C4: collatz_sequence raises ValueError exactly for start <= 0, before any
\* step is built and without a result; a start >= 1 never raises.
C4_RaisesIffNotPositive ==
    \A p \in Procs :
        /\ handler[p] = "direct" =>
               /\ pc[p] = "raised" <=> start[p] <= 0
               /\ pc[p] \in {"loop", "returned"} <=> start[p] >= 1
        /\ pc[p] = "raised" =>
               exc[p] = "ValueError" /\ steps[p] = <<>> /\ result[p] = <<>>
        /\ pc[p] \in {"loop", "returned"} =>
               exc[p] = "" /\ start[p] >= 1 /\ steps[p] # <<>>

C4_Witness ==
    \E p \in Procs, q \in Procs :
        /\ pc[p] = "raised" /\ start[p] = 0
        /\ pc[q] = "returned" /\ start[q] = 1 /\ handler[q] = "direct"

\* what the claim C5 counts as a valid number: a JSON integer >= 1, or text
\* that is the decimal numeral of one
IsValidNumber(body) ==
    /\ body.kind = "object"
    /\ body.has
    /\ \/ body.number.t = "int" /\ body.number.n >= 1
       \/ /\ body.number.t = "str"
          /\ IntOfStr(body.number.s).ok
          /\ IntOfStr(body.number.s).n >= 1

\* C5: no request to /api/collatz whose number is 0, negative, non-numeric
\* text, missing, or not an integer (fractional, boolean) is coerced to a valid
\* number: none is answered with a success response holding steps.
C5_InvalidNeverSucceeds ==
    \A p \in Procs :
        (handler[p] = "api" /\ ~IsValidNumber(request[p].body) /\ response[p] # <<>>) =>
            /\ response[p][1].status # 200
            /\ "steps" \notin DOMAIN response[p][1].body

\* C6: the page returned for a POST / carrying the form field number depends
\* on the field: it shows the computed steps when the field parses to a
\* positive integer and an error message when it does not.
C6_PostIndexShowsResultOrError ==
    \A p \in Procs :
        (handler[p] = "index" /\ request[p].method = "POST" /\ response[p] # <<>>) =>
            LET number == _parse_positive_int(StrVal(request[p].form))
                context == response[p][1].body.context
            IN  IF number.ok
                THEN /\ "steps" \in DOMAIN context
                     /\ context.steps = collatz_sequence(number.n, MAX_STEPS).steps
                ELSE "error" \in DOMAIN context

\* C7: the value 1 occurs only as the value of the last step, at every point
\* of the loop and in every result, and start 1 gives the single step 1 with
\* truncated = false for every max_steps.
C7_OneOnlyLast ==
    \A p \in Procs :
        /\ \A i \in 1..(Len(steps[p]) - 1) : steps[p][i].value # 1
        /\ Returned(p) =>
               /\ \A i \in 1..(Len(Res(p).steps) - 1) : Res(p).steps[i].value # 1
               /\ start[p] = 1 =>
                      /\ ValuesOf(Res(p).steps) = <<1>>
                      /\ Res(p).truncated = FALSE

C7_Witness ==
    \E p \in Procs, q \in Procs :
        /\ Returned(p) /\ start[p] = 1 /\ max_steps[p] >= 1
        /\ Returned(q) /\ start[q] > 1 /\ Len(Res(q).steps) <= max_steps[q]
        /\ Res(q).steps[Len(Res(q).steps)].value = 1

\* C8: a request to /api/collatz whose number parses to a positive integer n
\* is answered 200 with exactly the steps and the truncated flag of
\* collatz_sequence(n) under the cap of 1000, and max_steps = 1000.
C8_ApiPayload ==
    \A p \in Procs :
        (handler[p] = "api" /\ pc[p] = "responded" /\ request[p].body.kind # "array") =>
            LET number == _parse_positive_int(RawNumber(request[p].body))
            IN  number.ok =>
                    LET r == response[p][1]
                        n == Len(r.body.steps)
                    IN  /\ r.status = 200
                        /\ r.type = "json"
                        /\ DOMAIN r.body = {"steps", "truncated", "max_steps"}
                        /\ r.body.max_steps = 1000
                        /\ [i \in 1..n |-> r.body.steps[i].value] = Trajectory(number.n, n)
                        /\ \A i \in 1..n :
                               /\ r.body.steps[i].step = i - 1
                               /\ DOMAIN r.body.steps[i] = {"step", "value", "operation"}
                               /\ i # n => r.body.steps[i].value # 1
                        /\ r.body.truncated <=> (n = 1001 /\ r.body.steps[n].value # 1)
                        /\ ~r.body.truncated => r.body.steps[n].value = 1
                        /\ r.body.steps = collatz_sequence(number.n, 1000).steps
                        /\ r.body.truncated = collatz_sequence(number.n, 1000).truncated

C8_Witness ==
    \E p \in Procs :
        /\ handler[p] = "api" /\ pc[p] = "responded"
        /\ request[p].body = Body("object", TRUE, IntVal(6))
        /\ response[p][1].status = 200
        /\ Len(response[p][1].body.steps) = 9

\* C9: whatever the other workers do meanwhile, an invocation builds and
\* returns what collatz_sequence(start, max_steps) returns when run alone.
C9_SameAsRunAlone ==
    \A p \in Procs :
        /\ pc[p] = "loop" =>
               LET alone == collatz_sequence(start[p], max_steps[p]).steps
               IN  /\ Len(steps[p]) <= Len(alone)
                   /\ steps[p] = SubSeq(alone, 1, Len(steps[p]))
        /\ Returned(p) => Res(p) = collatz_sequence(start[p], max_steps[p])

C9_Witness ==
    \E p \in Procs, q \in Procs :
        /\ Returned(p) /\ Len(Res(p).steps) > 2
        /\ pc[q] = "loop" /\ Len(steps[q]) > 2
        /\ start[p] # start[q]

\* C10: at every point of the loop and in every result the step at position i
\* (from 0) has step = i, so the last step's number is the number of
\* transformations applied, and every value is >= 1.
C10_StepNumbersAndValues ==
    \A p \in Procs :
        /\ \A i \in 1..Len(steps[p]) :
               steps[p][i].step = i - 1 /\ steps[p][i].value >= 1
        /\ pc[p] = "loop" => Len(steps[p]) = step_index[p]
        /\ Returned(p) =>
               \A i \in 1..Len(Res(p).steps) :
                   Res(p).steps[i].step = i - 1 /\ Res(p).steps[i].value >= 1

C10_Witness ==
    \E p \in Procs :
        pc[p] = "loop" /\ Len(steps[p]) >= 4 /\ steps[p][4].value > start[p]

====
